---- MODULE Spec2Model ----
(***************************************************************************)
(* Model of the ai-web-searcher session service:                           *)
(*   src/web_searcher/session.py     SessionInfo, SessionManager           *)
(*   src/web_searcher/api/routes.py  the HTTP handlers and process_query   *)
(*                                                                         *)
(* Everything runs on one asyncio event loop, so a coroutine runs without  *)
(* interruption from one await that really suspends to the next.  Each     *)
(* action below is one such uninterrupted run.  The suspension points are  *)
(* page.close() in close_session, asyncio.sleep in the sweep, the gather   *)
(* and the await of the cancelled sweep in close_all_sessions, and the     *)
(* pull of the next event of the decision stream in process_query.         *)
(*                                                                         *)
(* Python values: None is the empty sequence and a value x that is there   *)
(* is <<x>> (Optional); text is a sequence of fragments, so that           *)
(* concatenation is \o and the substring test is a sub-sequence test.      *)
(***************************************************************************)
EXTENDS Integers, Sequences, FiniteSets, Bags, TLC

\* ------------------------------------------------------------- bounds
MaxSessions == 2    \* sessions ever created (uuid4 never repeats)
MaxTime == 1        \* clock readings 0..MaxTime
MaxTimeout == 1     \* timeout_minutes is drawn from 0..MaxTimeout
MaxStepsBound == 1  \* request.max_steps is drawn from 0..MaxStepsBound
MaxLoops == 2       \* process_query tasks in flight
MaxClosers == 2     \* close_session calls in flight (routes and cleanup tasks)

Ids == 1..MaxSessions
Timeouts == 0..MaxTimeout
StepBounds == 0..MaxStepsBound
\* By how much the clock may have advanced from one reading of
\* datetime.now() to the next one of the same run.
Advances == 0..MaxTime

\* ------------------------------------------------------------- values
None == <<>>
Some(x) == <<x>>

\* str(n) for the small integers of the model.
Digits == <<"0", "1", "2", "3", "4", "5", "6", "7", "8", "9">>
IntStr(n) == IF n < 10 THEN <<Digits[n + 1]>>
             ELSE <<Digits[(n \div 10) + 1], Digits[(n % 10) + 1]>>

\* `needle in hay` of two texts.
Contains(needle, hay) ==
    \E i \in 1..(Len(hay) - Len(needle) + 1) :
        SubSeq(hay, i, i + Len(needle) - 1) = needle

\* The questions a client asks.
Questions == {"q1", "q2"}

\* Actions a prediction can carry: the agent's prompt writes the answer as
\* "ANSWER; [text]", which parse splits at the first blank into "ANSWER;".
ANSWER == <<"ANSWER">>
ActionNames == {ANSWER, <<"ANSWER", ";">>, <<"Click">>, <<"retry">>}
\* args of a prediction: None, or a list of texts (parse never gives an
\* empty list, another producer may).
ArgLists == {None, Some(<<>>), Some(<<"a">>)}
\* A prediction dict: action is a text or missing, args a list or missing.
\* The answers come with every kind of args, the other actions with one.
Predictions ==
    [action : {Some(a) : a \in {ANSWER, <<"ANSWER", ";">>}}, args : ArgLists]
    \cup [action : {Some(a) : a \in ActionNames}, args : {Some(<<"a">>)}]
    \cup {[action |-> None, args |-> None]}

\* Events of graph.astream: a node other than the agent, the agent with or
\* without a prediction, the stream raising, the stream ending.
Failures == {<<"boom">>}
Events ==
    {[kind |-> "other"], [kind |-> "end"]}
    \cup {[kind |-> "agent", prediction |-> Some(p)] : p \in Predictions}
    \cup {[kind |-> "agent", prediction |-> None]}
    \cup {[kind |-> "raise", text |-> f] : f \in Failures}

\* ------------------------------------------------------------- state
VARIABLES
    now,       \* the last reading of datetime.now()
    browser,   \* SessionManager._browser is set
    sessions,  \* the keys of SessionManager._sessions
    rec,       \* the SessionInfo objects ever made, by session_id
    page,      \* per session_id, the calls of page.close() so far
    closers,   \* bag of close_session coroutines in flight
    sweep,     \* the _cleanup_expired_sessions task
    closeAll,  \* the close_all_sessions call
    loops,     \* bag of process_query background tasks in flight
    ended,     \* per session_id, the process_query runs that ended since the
               \* last query was started (history)
    ret        \* what the last step did or returned

vars == <<now, browser, sessions, rec, page, closers, sweep, closeAll, loops, ended, ret>>

\* SessionInfo(session_id, page, graph, timeout_minutes) with the defaults
\* of the dataclass; created_at and last_accessed are two readings of the
\* clock.
SessionInfo(created, accessed, timeout) ==
    [status |-> "active",
     current_query |-> None,
     result |-> None,
     error |-> None,
     current_step |-> None,
     current_action |-> None,
     created_at |-> created,
     last_accessed |-> accessed,
     timeout_minutes |-> timeout]

\* An expiry test that is not strict: a record expires when its timeout
\* has just been reached.
is_expired_at_timeout(s, t) == t - s.last_accessed >= s.timeout_minutes

\* SessionInfo.is_expired: datetime.now() - last_accessed > timedelta(minutes),
\* t being its reading of the clock.
is_expired(s, t) == t - s.last_accessed > s.timeout_minutes

\* update_last_accessed, t being its reading of the clock.
update_last_accessed(s, t) == [s EXCEPT !.last_accessed = t]

Created == DOMAIN rec

\* What a step did: the operation, the session_id, and what it returned or
\* raised; `at` is None but for a step of process_query.
Ret(op, id, val) == [op |-> op, id |-> id, val |-> val, at |-> None]

\* A step of process_query task l: the event it pulled, and the task's
\* max_steps and step_count after it.
LoopRet(l, n, e, val) ==
    [op |-> "loop", id |-> l.id, val |-> val,
     at |-> Some([max_steps |-> l.max_steps, step_count |-> n, event |-> e])]

Init ==
    /\ now = 0
    /\ browser = FALSE
    /\ sessions = {}
    /\ rec = <<>>
    /\ page = <<>>
    /\ closers = EmptyBag
    /\ sweep = [pc |-> "none", cur |-> 0, rest |-> <<>>]
    /\ closeAll = [pc |-> "idle", n |-> 0, raised |-> 0, created |-> FALSE, count |-> 0]
    /\ loops = EmptyBag
    /\ ended = <<>>
    /\ ret = Ret("init", 0, "")

\* The clock advances.
Tick ==
    /\ now < MaxTime
    /\ now' = now + 1
    /\ ret' = Ret("tick", 0, "")
    /\ UNCHANGED <<browser, sessions, rec, page, closers, sweep, closeAll, loops, ended>>

\* SessionManager.initialize: keeps the browser and starts the sweep task,
\* which goes to sleep.
initialize ==
    /\ ~browser
    /\ browser' = TRUE
    /\ sweep' = [pc |-> "sleep", cur |-> 0, rest |-> <<>>]
    /\ ret' = Ret("initialize", 0, "")
    /\ UNCHANGED <<now, sessions, rec, page, closers, closeAll, loops, ended>>

\* ------------------------------------------------------------- registry

\* A handler that undoes a failed create by emptying the registry.
registry_cleared_on_failure(ss) == {}

\* create_session, lines 82-84: the insert (lines 76-77) is the last thing
\* in the try that can be reached after a failure, so the handler finds the
\* registry as it was and only logs and raises.
registry_after_failure(ss) == ss

\* SessionManager.create_session.  The two awaits (new_page, goto) come
\* before the registry is touched, so the run that matters is the last one:
\* it builds the SessionInfo (two readings of the clock, d apart) and
\* inserts it.  A failure of new_page or goto becomes an HTTP 500; a missing
\* browser raises RuntimeError before the try.
create_session(timeout, outcome, d) ==
    /\ UNCHANGED <<browser, closers, sweep, loops>>
    /\ \/ /\ ~browser
          /\ ret' = Ret("create", 0, "RuntimeError")
          /\ UNCHANGED <<now, sessions, rec, page, closeAll, ended>>
       \/ /\ browser
          /\ outcome # "ok"
          /\ sessions' = registry_after_failure(sessions)
          /\ ret' = Ret("create", 0, "HTTP 500")
          /\ UNCHANGED <<now, rec, page, closeAll, ended>>
       \/ /\ browser
          /\ outcome = "ok"
          /\ Cardinality(Created) < MaxSessions
          /\ now + d <= MaxTime
          /\ LET id == Cardinality(Created) + 1 IN
             /\ rec' = rec @@ (id :> SessionInfo(now, now + d, timeout))
             /\ page' = page @@ (id :> 0)
             /\ ended' = ended @@ (id :> 0)
             /\ sessions' = sessions \cup {id}
             /\ ret' = Ret("create", id, "ok")
          /\ now' = now + d
          /\ closeAll' = [closeAll EXCEPT
                 !.created = @ \/ closeAll.pc \in {"gather", "awaiting"}]

\* A lookup that does not test the expiry.
get_session_outcome_unexpiring(id) ==
    IF id \notin sessions THEN "not_found" ELSE "ok"

\* What SessionManager.get_session does with session_id, by its branches.
get_session_outcome(id) ==
    IF id \notin sessions THEN "not_found"
    ELSE IF is_expired(rec[id], now) THEN "expired"
    ELSE "ok"

\* asyncio.create_task(self._cleanup_session(session_id)): a task that has
\* not run yet.
cleanup_task(id) == [id |-> id, kind |-> "cleanup", pc |-> "scheduled"]

\* The record get_session returns, last_accessed updated (its reading of
\* the clock is d after the one of is_expired).
accessed(id, d) == update_last_accessed(rec[id], now + d)

\* SessionManager.get_session, as an effect on the clock, the registry's
\* records and the tasks; `after` is the returned record as the caller
\* leaves it in the same run (query_agent writes to it, a plain lookup
\* does not).
get_session(id, d, after) ==
    LET out == get_session_outcome(id) IN
    IF out = "not_found"
    THEN UNCHANGED <<now, rec, closers>>
    ELSE IF out = "expired"
    THEN /\ BagCardinality(closers) < MaxClosers
         /\ closers' = closers (+) SetToBag({cleanup_task(id)})
         /\ UNCHANGED <<now, rec>>
    ELSE /\ now + d <= MaxTime
         /\ now' = now + d
         /\ rec' = [rec EXCEPT ![id] = after]
         /\ UNCHANGED closers

\* GET /sessions/{session_id}
get_session_route(id, d) ==
    /\ get_session(id, d, accessed(id, d))
    /\ ret' = Ret("get", id, get_session_outcome(id))
    /\ UNCHANGED <<browser, sessions, page, sweep, closeAll, loops, ended>>

\* The try around page.close() left out: its exception leaves close_session.
page_close_uncaught(raised) == ~raised

\* close_session, line 112-116: an exception of page.close() is caught and
\* logged, and the coroutine goes on to the delete.
page_close_caught(raised) == TRUE

\* close_session up to its await: the lookup under the lock and the call of
\* page.close().
close_begin(id) == id \in sessions

\* DELETE /sessions/{session_id}: close_session runs up to page.close(),
\* or returns False (the route answers 404).
close_session_route(id) ==
    /\ IF close_begin(id)
       THEN /\ BagCardinality(closers) < MaxClosers
            /\ page' = [page EXCEPT ![id] = @ + 1]
            /\ closers' = closers (+)
                   SetToBag({[id |-> id, kind |-> "close", pc |-> "releasing"]})
            /\ ret' = Ret("close", id, "releasing")
       ELSE /\ ret' = Ret("close", id, "False")
            /\ UNCHANGED <<page, closers>>
    /\ UNCHANGED <<now, browser, sessions, rec, sweep, closeAll, loops, ended>>

\* A scheduled close_session (from _cleanup_session or from the gather of
\* close_all_sessions) runs up to page.close(), or returns False.
close_session_start(c) ==
    /\ c \in BagToSet(closers)
    /\ c.pc = "scheduled"
    /\ IF close_begin(c.id)
       THEN /\ page' = [page EXCEPT ![c.id] = @ + 1]
            /\ closers' = (closers (-) SetToBag({c}))
                   (+) SetToBag({[c EXCEPT !.pc = "releasing"]})
            /\ ret' = Ret(c.kind, c.id, "releasing")
       ELSE /\ closers' = closers (-) SetToBag({c})
            /\ ret' = Ret(c.kind, c.id, "False")
            /\ UNCHANGED page
    /\ UNCHANGED <<now, browser, sessions, rec, sweep, closeAll, loops, ended>>

\* close_session after page.close() has returned or raised (`raised`): the
\* delete, which raises KeyError when the key is gone.  "True" is the
\* return value, the others are the exception that leaves close_session.
close_end(id, raised) ==
    IF ~page_close_caught(raised) THEN "Exception"
    ELSE IF id \in sessions THEN "True"
    ELSE "KeyError"

\* A close_session in flight resumes after page.close().  An exception
\* leaves the route as it is, _cleanup_session logs it, and the gather of
\* close_all_sessions collects it (return_exceptions=True).
close_session_resume(c, raised) ==
    /\ c \in BagToSet(closers)
    /\ c.pc = "releasing"
    /\ closers' = closers (-) SetToBag({c})
    /\ LET out == close_end(c.id, raised) IN
       /\ sessions' = IF out = "True" THEN sessions \ {c.id} ELSE sessions
       /\ ret' = Ret(c.kind, c.id, out)
       /\ closeAll' = IF c.kind = "closeall" /\ out # "True"
                      THEN [closeAll EXCEPT !.raised = @ + 1]
                      ELSE closeAll
    /\ UNCHANGED <<now, browser, rec, page, sweep, loops, ended>>

\* get_session_count and the keys of get_session_info.
get_session_count == Cardinality(sessions)
get_session_info == [id \in sessions |->
    [status |-> rec[id].status,
     created_at |-> rec[id].created_at,
     last_accessed |-> rec[id].last_accessed,
     current_query |-> rec[id].current_query]]

\* ------------------------------------------------------------- sweep

\* The scan of _cleanup_expired_sessions from session id on, in the order
\* of the dict (insertion order, which is the order of creation).  Each
\* is_expired() reads the clock for itself: t is the reading before, and
\* d[id] is how far the clock has advanced by the reading for id.
\* ScanEnd is the last reading of the scan, ExpiredFrom the ids collected.
RECURSIVE ScanEnd(_, _, _)
ScanEnd(id, t, d) ==
    IF id > MaxSessions THEN t
    ELSE IF id \in sessions THEN ScanEnd(id + 1, t + d[id], d)
    ELSE ScanEnd(id + 1, t, d)
RECURSIVE ExpiredFrom(_, _, _)
ExpiredFrom(id, t, d) ==
    IF id > MaxSessions THEN <<>>
    ELSE IF id \notin sessions THEN ExpiredFrom(id + 1, t, d)
    ELSE IF is_expired(rec[id], t + d[id])
         THEN <<id>> \o ExpiredFrom(id + 1, t + d[id], d)
         ELSE ExpiredFrom(id + 1, t + d[id], d)

\* The sweep's `for session_id in expired_sessions: await _cleanup_session`:
\* a close_session that finds its id gone returns False without suspending,
\* so the loop runs on to the first id still in `present`.
RECURSIVE SkipAbsent(_, _)
SkipAbsent(ids, present) ==
    IF ids = <<>> THEN <<>>
    ELSE IF Head(ids) \in present THEN ids
    ELSE SkipAbsent(Tail(ids), present)

\* The sweep goes on with `ids` while the registry holds `present`: it
\* suspends in page.close() of the first id still there, or sleeps again.
sweep_continue(ids, present, pages) ==
    LET todo == SkipAbsent(ids, present) IN
    IF todo = <<>>
    THEN /\ sweep' = [pc |-> "sleep", cur |-> 0, rest |-> <<>>]
         /\ page' = pages
    ELSE /\ sweep' = [pc |-> "releasing", cur |-> Head(todo), rest |-> Tail(todo)]
         /\ page' = [pages EXCEPT ![Head(todo)] = @ + 1]

\* _cleanup_expired_sessions after its sleep: the scan under the lock, one
\* reading of the clock per record (d tells how far apart), then the first
\* close up to its await.
sweep_wake(d) ==
    /\ sweep.pc = "sleep"
    /\ ScanEnd(1, now, d) <= MaxTime
    /\ now' = ScanEnd(1, now, d)
    /\ sweep_continue(ExpiredFrom(1, now, d), sessions, page)
    /\ ret' = Ret("sweep", 0, "scan")
    /\ UNCHANGED <<browser, sessions, rec, closers, closeAll, loops, ended>>

\* The sweep's close_session after page.close(): the delete (a KeyError, or
\* an exception of page.close() that got out, is logged by
\* _cleanup_session), then the next id.
sweep_resume(raised) ==
    /\ sweep.pc = "releasing"
    /\ LET out == close_end(sweep.cur, raised)
           left == IF out = "True" THEN sessions \ {sweep.cur} ELSE sessions IN
       /\ sessions' = left
       /\ ret' = Ret("sweep", sweep.cur, out)
       /\ sweep_continue(sweep.rest, left, page)
    /\ UNCHANGED <<now, browser, rec, closers, closeAll, loops, ended>>

\* ------------------------------------------------------------- close_all

NoCloseAllTask == \A c \in BagToSet(closers) : c.kind # "closeall"

\* A shutdown that returns after the gather and leaves the sweep running.
close_all_keeps_sweep ==
    /\ closeAll' = [closeAll EXCEPT !.pc = "done", !.count = get_session_count]
    /\ UNCHANGED sweep

\* close_all_sessions after the gather: cancels the sweep task and awaits
\* it (CancelledError is no Exception, the sweep's handlers let it pass);
\* without a sweep task it returns at once.
close_all_cancel ==
    IF sweep.pc = "none"
    THEN /\ closeAll' = [closeAll EXCEPT !.pc = "done",
                                         !.count = get_session_count]
         /\ UNCHANGED sweep
    ELSE /\ closeAll' = [closeAll EXCEPT !.pc = "awaiting"]
         /\ sweep' = [pc |-> "cancelled", cur |-> 0, rest |-> <<>>]

\* close_all_sessions: the snapshot of the keys and one close_session per
\* key, handed to gather (an empty gather is done at once).
close_all_sessions ==
    /\ closeAll.pc = "idle"
    /\ IF sessions = {}
       THEN /\ close_all_cancel
            /\ UNCHANGED closers
       ELSE /\ closeAll' = [closeAll EXCEPT !.pc = "gather",
                                            !.n = Cardinality(sessions)]
            /\ closers' = closers (+) SetToBag(
                   {[id |-> id, kind |-> "closeall", pc |-> "scheduled"] :
                       id \in sessions})
            /\ UNCHANGED sweep
    /\ ret' = Ret("close_all", 0, "called")
    /\ UNCHANGED <<now, browser, sessions, rec, page, loops, ended>>

\* The gather is done: every close_session of it has returned or raised.
close_all_gathered ==
    /\ closeAll.pc = "gather"
    /\ NoCloseAllTask
    /\ close_all_cancel
    /\ ret' = Ret("close_all", 0, "gathered")
    /\ UNCHANGED <<now, browser, sessions, rec, page, closers, loops, ended>>

\* The cancelled sweep task is done: close_all_sessions returns.  count is
\* get_session_count() at that moment.
close_all_return ==
    /\ closeAll.pc = "awaiting"
    /\ closeAll' = [closeAll EXCEPT !.pc = "done",
                                    !.count = get_session_count]
    /\ ret' = Ret("close_all", 0, "returned")
    /\ UNCHANGED <<now, browser, sessions, rec, page, closers, sweep, loops, ended>>

\* ------------------------------------------------------------- engine

\* The start of a query that forgets to clear the error of the last one.
start_query_keeps_error(s, q) ==
    [s EXCEPT !.status = "processing",
              !.current_query = Some(q),
              !.result = None]

\* query_agent, lines 51-54: the four fields a new query writes.
start_query(s, q) ==
    [s EXCEPT !.status = "processing",
              !.current_query = Some(q),
              !.result = None,
              !.error = None]

\* POST /sessions/{session_id}/query: get_session (404 when it raises),
\* the four writes, and process_query handed to the background tasks.
query_agent(id, q, m, d) ==
    /\ get_session(id, d, start_query(accessed(id, d), q))
    /\ IF get_session_outcome(id) = "ok"
       THEN /\ BagCardinality(loops) < MaxLoops
            /\ loops' = loops (+)
                   SetToBag({[id |-> id, max_steps |-> m, step_count |-> 0]})
            /\ ended' = [ended EXCEPT ![id] = 0]
            /\ ret' = Ret("submit", id, "processing")
       ELSE /\ ret' = Ret("submit", id, get_session_outcome(id))
            /\ UNCHANGED <<loops, ended>>
    /\ UNCHANGED <<browser, sessions, page, sweep, closeAll>>

\* event["agent"].get("prediction") or {}: a dict without action and args.
EmptyPrediction == [action |-> None, args |-> None]
prediction_or_empty(p) == IF p = None THEN EmptyPrediction ELSE p[1]

\* str() of an optional text and of an optional list of texts, for the
\* f-string of current_action.
RECURSIVE ReprItems(_)
ReprItems(l) ==
    IF l = <<>> THEN <<>>
    ELSE <<"'">> \o Head(l) \o <<"'">>
         \o (IF Len(l) > 1 THEN <<", ">> ELSE <<>>) \o ReprItems(Tail(l))
StrText(t) == IF t = None THEN <<"None">> ELSE t[1]
StrList(l) == IF l = None THEN <<"None">> ELSE <<"[">> \o ReprItems(l[1]) \o <<"]">>
current_action_text(action, args) == StrText(action) \o <<": ">> \o StrList(args)

\* str(e) of the exceptions process_query raises itself.
MaxStepsText(m) == <<"Max steps (">> \o IntStr(m) \o <<") exceeded">>
NoneTypeText == <<"argument of type 'NoneType' is not iterable">>

\* `"ANSWER" in action`, for an action that is a text.
is_answer(action) == Contains(ANSWER, action)

\* action_input[0] if action_input else None
final_answer(args) ==
    IF args = None \/ args[1] = <<>> THEN None ELSE Some(args[1][1])

\* The bound tested one step late.
exceeded_late(step_count, max_steps) == step_count > max_steps + 1

\* step_count > request.max_steps
exceeded(step_count, max_steps) == step_count > max_steps

\* The handler that records the text of an exception and not that the
\* query failed.
on_exception_keeps_status(s, text) == [s EXCEPT !.error = Some(text)]

\* except Exception as e, lines 93-95: the failure ends the run on the
\* record, with str(e) as its error.
on_exception(s, text) == [s EXCEPT !.status = "error", !.error = Some(text)]

\* How one agent event ends for process_query: "answer", a raise with its
\* text, or "continue".
agent_step(pred, n, m) ==
    IF pred.action = None THEN [to |-> "raise", text |-> NoneTypeText]
    ELSE IF is_answer(pred.action[1]) THEN [to |-> "answer", text |-> <<>>]
    ELSE IF exceeded(n, m) THEN [to |-> "raise", text |-> MaxStepsText(m)]
    ELSE [to |-> "continue", text |-> <<>>]

\* process_query from one pull of the event stream to the next pull, or to
\* its end.  l is the task, e the event the pull gives.
process_query(l, e) ==
    /\ l \in BagToSet(loops)
    /\ LET s == rec[l.id]
           rest == loops (-) SetToBag({l})
           over == [ended EXCEPT ![l.id] = @ + 1] IN
       \/ /\ e.kind = "other"
          /\ ret' = LoopRet(l, l.step_count, e, "skip")
          /\ UNCHANGED <<rec, loops, ended>>
       \/ /\ e.kind = "agent"
          /\ LET n == l.step_count + 1
                 pred == prediction_or_empty(e.prediction)
                 seen == [s EXCEPT
                     !.current_step = Some(n),
                     !.current_action =
                         Some(current_action_text(pred.action, pred.args))]
                 end == agent_step(pred, n, l.max_steps) IN
             \/ /\ end.to = "continue"
                /\ rec' = [rec EXCEPT ![l.id] = seen]
                /\ loops' = rest (+) SetToBag({[l EXCEPT !.step_count = n]})
                /\ UNCHANGED ended
                /\ ret' = LoopRet(l, n, e, "continue")
             \/ /\ end.to = "answer"
                /\ rec' = [rec EXCEPT ![l.id] =
                       [seen EXCEPT !.status = "completed",
                                    !.result = final_answer(pred.args)]]
                /\ loops' = rest
                /\ ended' = over
                /\ ret' = LoopRet(l, n, e, "answer")
             \/ /\ end.to = "raise"
                /\ rec' = [rec EXCEPT ![l.id] = on_exception(seen, end.text)]
                /\ loops' = rest
                /\ ended' = over
                /\ ret' = LoopRet(l, n, e,
                       IF pred.action = None THEN "TypeError" ELSE "max_steps")
       \/ /\ e.kind = "end"
          /\ rec' = [rec EXCEPT ![l.id] =
                 [s EXCEPT !.status = "completed", !.result = None]]
          /\ loops' = rest
          /\ ended' = over
          /\ ret' = LoopRet(l, l.step_count, e, "exhausted")
       \/ /\ e.kind = "raise"
          /\ rec' = [rec EXCEPT ![l.id] = on_exception(s, e.text)]
          /\ loops' = rest
          /\ ended' = over
          /\ ret' = LoopRet(l, l.step_count, e, "stream_error")
    /\ UNCHANGED <<now, browser, sessions, page, closers, sweep, closeAll>>

\* ------------------------------------------------------------- the system

Next ==
    \/ Tick
    \/ initialize
    \/ \E t \in Timeouts, o \in {"ok", "new_page", "goto"}, d \in Advances :
           create_session(t, o, d)
    \/ \E id \in Ids, d \in Advances : get_session_route(id, d)
    \/ \E id \in Ids : close_session_route(id)
    \/ \E c \in BagToSet(closers) : close_session_start(c)
    \/ \E c \in BagToSet(closers), raised \in BOOLEAN : close_session_resume(c, raised)
    \/ \E d \in [Ids -> Advances] : sweep_wake(d)
    \/ \E raised \in BOOLEAN : sweep_resume(raised)
    \/ close_all_sessions
    \/ close_all_gathered
    \/ close_all_return
    \/ \E id \in Ids, q \in Questions, m \in StepBounds, d \in Advances :
           query_agent(id, q, m, d)
    \/ \E l \in BagToSet(loops), e \in Events : process_query(l, e)

Spec == Init /\ [][Next]_vars

\* The registry alone: sessions are created, looked up, expire, are closed,
\* swept and shut down, and no query is submitted.
NextRegistry ==
    \/ Tick
    \/ initialize
    \/ \E t \in Timeouts, o \in {"ok", "new_page", "goto"}, d \in Advances :
           create_session(t, o, d)
    \/ \E id \in Ids, d \in Advances : get_session_route(id, d)
    \/ \E id \in Ids : close_session_route(id)
    \/ \E c \in BagToSet(closers) : close_session_start(c)
    \/ \E c \in BagToSet(closers), raised \in BOOLEAN : close_session_resume(c, raised)
    \/ \E d \in [Ids -> Advances] : sweep_wake(d)
    \/ \E raised \in BOOLEAN : sweep_resume(raised)
    \/ close_all_sessions
    \/ close_all_gathered
    \/ close_all_return

SpecRegistry == Init /\ [][NextRegistry]_vars

\* One session, its lookups and its queries, while the clock stands still
\* and nobody closes the session.  The query fields of a record are written
\* by query_agent and process_query only, which is why the claims about
\* them are settled here.
NextEngine ==
    \/ initialize
    \/ \E t \in Timeouts, o \in {"ok", "new_page", "goto"} :
           Created = {} /\ create_session(t, o, 0)
    \/ \E id \in Ids : get_session_route(id, 0)
    \/ \E id \in Ids, q \in Questions, m \in StepBounds :
           query_agent(id, q, m, 0)
    \/ \E l \in BagToSet(loops), e \in Events : process_query(l, e)

SpecEngine == Init /\ [][NextEngine]_vars

\* One session with everything that can happen to it but the sweep and the
\* shutdown: it is looked up, queried, expires, is cleaned up and closed.
NextSession ==
    \/ Tick
    \/ initialize
    \/ \E t \in Timeouts, o \in {"ok", "new_page", "goto"}, d \in Advances :
           Created = {} /\ create_session(t, o, d)
    \/ \E id \in Ids, d \in Advances : get_session_route(id, d)
    \/ \E id \in Ids : close_session_route(id)
    \/ \E c \in BagToSet(closers) : close_session_start(c)
    \/ \E c \in BagToSet(closers), raised \in BOOLEAN : close_session_resume(c, raised)
    \/ \E id \in Ids, q \in Questions, m \in StepBounds, d \in Advances :
           query_agent(id, q, m, d)
    \/ \E l \in BagToSet(loops), e \in Events : process_query(l, e)

SpecSession == Init /\ [][NextSession]_vars

\* ------------------------------------------------------------- claims

\* C2 (as stated).  Whatever get-triggered cleanups, sweep, closes and
\* close_all_sessions run on one id, page.close() is called at most once
\* for it, and no close fails on its delete: the one that comes second sees
\* the id gone.
C2_ReleasedAtMostOnce ==
    /\ \A id \in DOMAIN page : page[id] <= 1
    /\ ret.val # "KeyError"

\* C3 (as stated).  When get_session finds the record expired, the record
\* is out of the registry by the time the lookup has failed: neither
\* get_session_count nor get_session_info includes it.
C3_ExpiredLookupRemoves ==
    (ret.op = "get" /\ ret.val = "expired") =>
        /\ ret.id \notin sessions
        /\ ret.id \notin DOMAIN get_session_info
        /\ get_session_count = Cardinality(sessions \ {ret.id})

\* C4.  close_all_sessions, when no session is created while it runs,
\* returns with an empty registry, whichever of its close_session calls
\* raised (page.close() raising, or the delete failing because another
\* close or the sweep removed the same session first).
C4_CloseAllLeavesNone ==
    (closeAll.pc = "done" /\ ~closeAll.created) => closeAll.count = 0

\* C4, its case: close_all_sessions has returned after a gather over two
\* sessions in which a close_session raised, and nothing was created since
\* it started.
C4_Witness ==
    /\ closeAll.pc = "done"
    /\ ~closeAll.created
    /\ closeAll.n = 2
    /\ closeAll.raised >= 1
    /\ closeAll.count = 0

\* C5 (as stated).  A close of an id that is not in the registry returns
\* False and leaves the registry as it is, and no close of the route ever
\* ends in an exception, a second close of the same id included.
C5_CloseNeverRaises ==
    [][ret'.op = "close" =>
          /\ ret'.val \notin {"KeyError", "Exception"}
          /\ (ret'.val \in {"False", "releasing"} /\ ret'.id \notin sessions) =>
                 (ret'.val = "False" /\ sessions' = sessions)]_vars

\* The process_query tasks in flight on one session.
running(id) == CopiesIn(id, BagOfAll(LAMBDA l : l.id, loops))

\* The six fields of a record a query writes.
QueryFields(s) ==
    <<s.status, s.current_query, s.result, s.error, s.current_step, s.current_action>>

\* C1 (as stated).  A submit to a session whose status is processing does
\* not start a query and leaves the six query fields of the record as they
\* were, so that no session ever has two process_query tasks in flight.
C1_SubmitWhileProcessingRejected ==
    [][/\ \A id \in DOMAIN rec :
              (rec[id].status = "processing" /\ ret'.op = "submit" /\ ret'.id = id) =>
                  /\ ret'.val # "processing"
                  /\ QueryFields(rec'[id]) = QueryFields(rec[id])
       /\ \A id \in Ids : running(id)' <= 1]_vars

\* An agent event whose prediction carries an action.
HasAction(e) == e.kind = "agent" /\ prediction_or_empty(e.prediction).action # None
ActionOf(e) == prediction_or_empty(e.prediction).action[1]

\* The last step was agent step n of a process_query task with
\* max_steps = n - 1, and its event carried an action.
AtStepPastBound ==
    /\ ret.op = "loop"
    /\ HasAction(ret.at[1].event)
    /\ ret.at[1].step_count = ret.at[1].max_steps + 1

\* The record of the last step has status error and an error text with
\* the task's max_steps in it.
EndedInMaxSteps ==
    /\ rec[ret.id].status = "error"
    /\ rec[ret.id].error # None
    /\ Contains(IntStr(ret.at[1].max_steps), rec[ret.id].error[1])

\* C6 (as stated).  A run with max_steps = N whose agent steps 1..N carried
\* no answer ends, at its agent step N+1, in status error with N in the
\* error text, whatever action that step carries.  (A run gets to step N+1
\* only when its steps 1..N carried actions that were no answers.)
C6_Original == AtStepPastBound => EndedInMaxSteps

\* C6 (amended).  A run with max_steps = N whose agent steps 1..N+1 each
\* carry an action that is no answer ends, at step N+1, in status error
\* with N in the error text.
C6_MaxStepsExceeded ==
    (AtStepPastBound /\ ~is_answer(ActionOf(ret.at[1].event))) => EndedInMaxSteps

\* C6, its case: a run with max_steps = 1 has just ended on its second
\* agent step with the error of the bound.
C6_Witness ==
    /\ AtStepPastBound
    /\ ~is_answer(ActionOf(ret.at[1].event))
    /\ ret.at[1].max_steps = 1
    /\ rec[ret.id].status = "error"
    /\ rec[ret.id].current_step = Some(2)
    /\ rec[ret.id].error = Some(MaxStepsText(1))

\* C7 (as stated).  A query that starts leaves status processing, its own
\* question, no result, no error, and no step or action of an earlier
\* query: current_step is 0 (or not set yet) and current_action is not set.
C7_StartResetsProgress ==
    [][(ret'.op = "submit" /\ ret'.val = "processing") =>
          LET s == rec'[ret'.id] IN
          /\ s.status = "processing"
          /\ s.current_query # None
          /\ s.result = None
          /\ s.error = None
          /\ s.current_step \in {None, Some(0)}
          /\ s.current_action = None]_vars

\* A query has just been started on id.
JustStarted(id) == ret.op = "submit" /\ ret.val = "processing" /\ ret.id = id

\* C8 (as stated).  result and error are never both set; a record that is
\* completed or in error has exactly one of them; an active record and one
\* whose query has just started have neither.
C8_Original ==
    \A id \in DOMAIN rec :
        LET s == rec[id] IN
        /\ ~(s.result # None /\ s.error # None)
        /\ s.status \in {"completed", "error"} =>
               ((s.result # None) # (s.error # None))
        /\ (s.status = "active" \/ JustStarted(id)) =>
               (s.result = None /\ s.error = None)

\* C8 (amended).  An active record and one whose query has just started
\* have neither result nor error; a record in error has its error; a
\* completed record may have no result (an answer without arguments, a
\* stream that ended); and result and error are both set only when two
\* runs on the record have ended since its last query started.
C8_ResultAndError ==
    \A id \in DOMAIN rec :
        LET s == rec[id] IN
        /\ (s.status = "active" \/ JustStarted(id)) =>
               (s.result = None /\ s.error = None)
        /\ s.status = "error" => s.error # None
        /\ (s.status = "completed" /\ ended[id] <= 1) => s.error = None
        /\ (s.result # None /\ s.error # None) => ended[id] >= 2

\* C8, its case: a single run has completed with neither result nor error.
C8_Witness ==
    \E id \in DOMAIN rec :
        /\ rec[id].status = "completed"
        /\ ended[id] = 1
        /\ rec[id].result = None
        /\ rec[id].error = None

\* C9 (as stated).  A status changes only from active, completed or error
\* to processing, and from processing to completed or error.
C9_StatusTransitions ==
    [][\A id \in DOMAIN rec :
          rec'[id].status # rec[id].status =>
              <<rec[id].status, rec'[id].status>> \in
                  {<<"active", "processing">>, <<"completed", "processing">>,
                   <<"error", "processing">>, <<"processing", "completed">>,
                   <<"processing", "error">>}]_vars

\* C10 (as stated).  page.close() is not called for a session while a
\* process_query task on it is still in flight.
C10_NoReleaseWhileRunning ==
    \A id \in DOMAIN page : page[id] > 0 => running(id) = 0

\* C11 (as stated).  Once a session's record is out of the registry, no
\* process_query task pulls another event of its decision stream or writes
\* to the record: every step of process_query is on a session that is
\* still in the registry.
C11_LoopStopsOnClose ==
    ret.op = "loop" => ret.id \in sessions

\* The last step was a step of process_query in which something raised:
\* the decision stream (which is where a failing page shows), the test of
\* an action that is not there, or the step bound.
LoopFailed ==
    /\ ret.op = "loop"
    /\ LET a == ret.at[1] IN
       \/ a.event.kind = "raise"
       \/ a.event.kind = "agent" /\ ~HasAction(a.event)
       \/ /\ HasAction(a.event)
          /\ ~is_answer(ActionOf(a.event))
          /\ a.step_count > a.max_steps

\* str(e) of what raised in the last step.
FailureText ==
    LET a == ret.at[1] IN
    IF a.event.kind = "raise" THEN a.event.text
    ELSE IF ~HasAction(a.event) THEN NoneTypeText
    ELSE MaxStepsText(a.max_steps)

\* C12.  A failure inside process_query ends that run on the record, with
\* status error and the failure's text as error, and never reaches the
\* submitter: a submit answers processing, or fails on the lookup alone.
C12_LoopFailureRecorded ==
    /\ LoopFailed =>
           /\ ret.val \in {"stream_error", "TypeError", "max_steps"}
           /\ rec[ret.id].status = "error"
           /\ rec[ret.id].error = Some(FailureText)
    /\ ret.op = "submit" => ret.val \in {"processing", "not_found", "expired"}

\* C12, its case: the decision stream raised after an agent step of a
\* query whose submit had answered processing, and the record holds it.
C12_Witness ==
    /\ LoopFailed
    /\ ret.at[1].event.kind = "raise"
    /\ ret.at[1].step_count >= 1
    /\ rec[ret.id].status = "error"
    /\ rec[ret.id].error = Some(<<"boom">>)

\* C13.  A lookup returns the record, with last_accessed set to the time
\* of the lookup, exactly when the id is in the registry and
\* now - last_accessed <= timeout_minutes; a lookup that fails changes no
\* record; and no step ever moves a record's last_accessed back.
C13_GetTouchesLiveOnly ==
    [][/\ ret'.op = "get" =>
              LET id == ret'.id
                  live == /\ id \in sessions
                          /\ now - rec[id].last_accessed <= rec[id].timeout_minutes IN
              /\ (ret'.val = "ok") <=> live
              /\ live => /\ rec'[id].last_accessed = now'
                         /\ id \in sessions'
              /\ ~live => rec' = rec
       /\ \A id \in DOMAIN rec :
              rec'[id].last_accessed >= rec[id].last_accessed]_vars

\* C13, its case: a lookup made one minute after the last access, with that
\* minute being the whole timeout, has returned the record and moved its
\* last_accessed.
C13_Witness ==
    /\ ret.op = "get"
    /\ ret.val = "ok"
    /\ rec[ret.id].timeout_minutes = 1
    /\ rec[ret.id].last_accessed = now
    /\ rec[ret.id].created_at < now

\* The session_id a create would register next (uuid4 of line 63).
NextId == Cardinality(Created) + 1

\* C14.  A create that fails, for want of a browser or because new_page or
\* goto raised, leaves the registry as it was: the same keys, the same
\* count, the same snapshot, no record made, and a lookup of the id it
\* would have used finds nothing.
C14_FailedCreateLeavesRegistry ==
    [][(ret'.op = "create" /\ ret'.val # "ok") =>
          /\ sessions' = sessions
          /\ rec' = rec
          /\ get_session_count' = get_session_count
          /\ get_session_info' = get_session_info
          /\ NextId \notin sessions'
          /\ get_session_outcome(NextId)' = "not_found"]_vars

\* C14, its case: a create has failed on new_page or goto while another
\* session was in the registry.
C14_Witness ==
    /\ ret.op = "create"
    /\ ret.val = "HTTP 500"
    /\ sessions # {}
    /\ get_session_count = 1

\* C15 (as stated).  The record a create returns has status active, no
\* query, result or error, and last_accessed equal to created_at, the clock
\* being free to advance between any two of its readings.
C15_CreatedRecord ==
    (ret.op = "create" /\ ret.val = "ok") =>
        LET s == rec[ret.id] IN
        /\ s.status = "active"
        /\ s.current_query = None
        /\ s.result = None
        /\ s.error = None
        /\ s.last_accessed = s.created_at

\* ------------------------------------------------------------- agent texts

\* The texts of the agent are sequences of characters, but for the words
\* the code compares as wholes ("ANSWER", "retry", the diagnostic of parse,
\* the heading of the scratchpad), which are one fragment each.
Whitespace == {" ", "\n", "\t"}

\* str.lstrip, str.rstrip and str.strip with the set of characters cs.
RECURSIVE lstrip(_, _)
lstrip(t, cs) ==
    IF t # <<>> /\ Head(t) \in cs THEN lstrip(Tail(t), cs) ELSE t
RECURSIVE rstrip(_, _)
rstrip(t, cs) ==
    IF t # <<>> /\ t[Len(t)] \in cs THEN rstrip(SubSeq(t, 1, Len(t) - 1), cs) ELSE t
strip(t, cs) == rstrip(lstrip(t, cs), cs)

\* The place of the first sep in t, 0 when there is none (str.find).
find(t, sep) ==
    IF \E i \in 1..Len(t) : t[i] = sep
    THEN CHOOSE i \in 1..Len(t) : t[i] = sep /\ \A j \in 1..(i - 1) : t[j] # sep
    ELSE 0

\* str.split(sep): the pieces of t between the occurrences of the
\* character sep; never an empty list.
RECURSIVE split(_, _)
split(t, sep) ==
    LET i == find(t, sep) IN
    IF i = 0 THEN <<t>>
    ELSE <<SubSeq(t, 1, i - 1)>> \o split(SubSeq(t, i + 1, Len(t)), sep)

\* str.split(sep, 1): at most one split, at the first sep.
split_once(t, sep) ==
    LET i == find(t, sep) IN
    IF i = 0 THEN <<t>>
    ELSE <<SubSeq(t, 1, i - 1), SubSeq(t, i + 1, Len(t))>>

\* str.startswith
startswith(t, prefix) ==
    Len(t) >= Len(prefix) /\ SubSeq(t, 1, Len(prefix)) = prefix

\* "Action: " and the texts parse makes itself.
action_prefix == <<"A", "c", "t", "i", "o", "n", ":", " ">>
retry == <<"retry">>
CouldNotParse == <<"Could not parse LLM Output: ">>

\* text.strip().split("\n")[-1]
last_line(text) ==
    LET lines == split(strip(text, Whitespace), "\n") IN lines[Len(lines)]

\* A retry whose diagnostic is made of the trimmed text.
could_not_parse_trimmed(text) ==
    [action |-> retry, args |-> CouldNotParse \o strip(text, Whitespace)]

\* parse, line 51: the retry action, args being the diagnostic (a str).
could_not_parse(text) ==
    [action |-> retry, args |-> CouldNotParse \o text]

\* parse, line 64: [inp.strip().strip("[]") for inp in
\* action_input.strip().split(";")]
parse_args(action_input) ==
    LET pieces == split(strip(action_input, Whitespace), ";") IN
    [i \in 1..Len(pieces) |-> strip(strip(pieces[i], Whitespace), {"[", "]"})]

\* parse, lines 53-66: the action and its args (None, or the list of
\* pieces) of a last line that starts with the marker.
parse_action(action_block) ==
    LET action_str == SubSeq(action_block, Len(action_prefix) + 1, Len(action_block))
        split_output == split_once(action_str, " ") IN
    [action |-> strip(split_output[1], Whitespace),
     args |-> IF Len(split_output) = 1 THEN None
              ELSE Some(parse_args(split_output[2]))]

\* nodes.parse
parse(text) ==
    IF ~startswith(last_line(text), action_prefix)
    THEN could_not_parse(text)
    ELSE parse_action(last_line(text))

\* edge.select_tool: END for the action "ANSWER", the agent node for
\* "retry", and otherwise the node named by the action.
END == <<"__end__">>

\* A router that takes a retry for the end of the run.
select_tool_retry_ends(action) ==
    IF action \in {ANSWER, retry} THEN END ELSE action

select_tool(action) ==
    IF action = ANSWER THEN END
    ELSE IF action = retry THEN <<"agent">>
    ELSE action

\* What the model's LLM writes: every text of at most MaxFrags fragments,
\* and the tool calls made of a lead, the marker, a name, a separator and
\* one or two arguments.
MaxFrags == 3
Frags == {action_prefix, <<"T">>, ANSWER, <<" ">>, <<"\n">>, <<"\t">>,
          <<";">>, <<"[">>, <<"3">>}
RECURSIVE Texts(_)
Texts(n) ==
    IF n = 0 THEN {<<>>}
    ELSE Texts(n - 1) \cup {t \o f : t \in Texts(n - 1), f \in Frags}
Leads == {<<>>, <<"x", "\n">>, <<"\n", " ">>}
Names == {<<"T">>}
Seps == {<<" ">>, <<" ", " ">>, <<"\t">>}
Pieces == {<<"3">>, <<"h", " ", "w">>, <<"[", "3", "]">>,
           <<"[", "[", "3", "]", "]">>, <<"[", "3">>, <<" ", "[", "3", "]", " ">>}
Calls ==
    {lead \o action_prefix \o name \o sep \o p \o more :
        lead \in Leads, name \in Names, sep \in Seps, p \in Pieces,
        more \in {<<>>} \cup {<<";">> \o q : q \in Pieces}}
LlmOutputs == Texts(MaxFrags) \cup Calls

\* The service before initialize, with nothing in flight.
NoService ==
    /\ now = 0
    /\ browser = FALSE
    /\ sessions = {}
    /\ rec = <<>>
    /\ page = <<>>
    /\ closers = EmptyBag
    /\ sweep = [pc |-> "none", cur |-> 0, rest |-> <<>>]
    /\ closeAll = [pc |-> "idle", n |-> 0, raised |-> 0, created |-> FALSE, count |-> 0]
    /\ loops = EmptyBag
    /\ ended = <<>>

\* The agent node of the graph (graph.py:20-22, 46): the LLM has written a
\* text, parse makes the prediction of it, and select_tool routes on the
\* prediction's action.
InitParse ==
    /\ NoService
    /\ ret \in {[op |-> "llm", text |-> t] : t \in LlmOutputs}

agent_parse ==
    /\ ret.op = "llm"
    /\ ret' = [op |-> "parse", text |-> ret.text, prediction |-> parse(ret.text)]
    /\ UNCHANGED <<now, browser, sessions, rec, page, closers, sweep, closeAll, loops, ended>>

agent_route ==
    /\ ret.op = "parse"
    /\ ret' = [op |-> "select_tool", text |-> ret.text, prediction |-> ret.prediction,
               to |-> select_tool(ret.prediction.action)]
    /\ UNCHANGED <<now, browser, sessions, rec, page, closers, sweep, closeAll, loops, ended>>

NextParse ==
    \/ agent_parse
    \/ agent_route

SpecParse == InitParse /\ [][NextParse]_vars

\* A line with nothing but whitespace on it.
IsBlank(line) == strip(line, Whitespace) = <<>>

\* The last non-empty line of a text, as the text has it: the last of its
\* lines that is not blank, nothing trimmed; empty when every line is blank.
LastNonEmptyLine(text) ==
    LET lines == split(text, "\n")
        full == {i \in 1..Len(lines) : ~IsBlank(lines[i])} IN
    IF full = {} THEN <<>>
    ELSE lines[CHOOSE i \in full : \A j \in full : j <= i]

\* C16 (as stated).  parse returns a prediction for every text; and
\* whenever the last non-empty line of the text does not start with
\* "Action: ", the prediction is the retry action with a diagnostic that
\* contains the text as it was given.
C16_Original ==
    ret.op = "parse" =>
        /\ DOMAIN ret.prediction = {"action", "args"}
        /\ ~startswith(LastNonEmptyLine(ret.text), action_prefix) =>
               /\ ret.prediction.action = retry
               /\ Contains(ret.text, ret.prediction.args)

\* C16 (amended).  parse returns a prediction for every text, the empty
\* text, blank texts and the bare marker included; and whenever the last
\* line of the text, taken after the whole text is trimmed of surrounding
\* whitespace, does not start with "Action: ", the prediction is the retry
\* action with a diagnostic that contains the text as it was given.
C16_ParseTotalAndRetries ==
    ret.op = "parse" =>
        /\ DOMAIN ret.prediction = {"action", "args"}
        /\ ~startswith(last_line(ret.text), action_prefix) =>
               /\ ret.prediction.action = retry
               /\ Contains(ret.text, ret.prediction.args)
               /\ Len(ret.prediction.args) = 1 + Len(ret.text)

\* C16, its case: a text with blanks around a bare marker has been parsed
\* into a retry.
C16_Witness ==
    /\ ret.op = "parse"
    /\ ret.text = <<" ">> \o action_prefix \o <<"\n">>
    /\ ret.prediction.action = retry
    /\ ret.prediction.args = CouldNotParse \o ret.text

\* The place of the first whitespace character of t, 0 when there is none.
FirstBlank(t) ==
    IF \E i \in 1..Len(t) : t[i] \in Whitespace
    THEN CHOOSE i \in 1..Len(t) :
             t[i] \in Whitespace /\ \A j \in 1..(i - 1) : t[j] \notin Whitespace
    ELSE 0

\* A piece without one layer of enclosing brackets, if it has one.
OneLayerOff(p) ==
    IF Len(p) >= 2 /\ p[1] = "[" /\ p[Len(p)] = "]"
    THEN SubSeq(p, 2, Len(p) - 1)
    ELSE p

\* The prediction C17 states for what follows the marker on the last line:
\* the name up to the first whitespace run, and the rest split on ";",
\* each piece trimmed and with one layer of brackets off.
StatedPrediction(r) ==
    LET i == FirstBlank(r)
        rest == lstrip(SubSeq(r, i + 1, Len(r)), Whitespace)
        pieces == split(rest, ";") IN
    IF i = 0 THEN [action |-> r, args |-> None]
    ELSE [action |-> SubSeq(r, 1, i - 1),
          args |-> Some([k \in 1..Len(pieces) |->
                            OneLayerOff(strip(pieces[k], Whitespace))])]

\* C17 (as stated).  For a last line "Action: <name> <rest>", parse returns
\* the name, split from the rest at the first whitespace run, and as args
\* the rest split on ";" in order, each piece trimmed of surrounding
\* whitespace and of exactly one layer of enclosing brackets; with no rest,
\* args is none.
C17_ParseNameAndArgs ==
    (ret.op = "parse" /\ startswith(last_line(ret.text), action_prefix)) =>
        LET line == last_line(ret.text)
            r == SubSeq(line, Len(action_prefix) + 1, Len(line)) IN
        FirstBlank(r) # 1 => ret.prediction = StatedPrediction(r)

\* ------------------------------------------------------------- scratchpad

\* txt.rsplit("\n", 1)[-1]: what follows the last line break of txt.
RECURSIVE after_last_newline(_)
after_last_newline(t) ==
    IF t = <<>> \/ t[Len(t)] = "\n" THEN <<>>
    ELSE after_last_newline(SubSeq(t, 1, Len(t) - 1)) \o <<t[Len(t)]>>

\* re.match(r"\d+", line): the digits line begins with, None when it
\* begins with none.
IsDigit(c) == \E d \in 1..Len(Digits) : Digits[d] = c
RECURSIVE leading_digits(_)
leading_digits(t) ==
    IF t # <<>> /\ IsDigit(Head(t)) THEN <<Head(t)>> \o leading_digits(Tail(t))
    ELSE <<>>
match_digits(line) ==
    IF leading_digits(line) = <<>> THEN None ELSE Some(leading_digits(line))

\* int() of a run of digits.
RECURSIVE int(_)
int(ds) ==
    IF ds = <<>> THEN 0
    ELSE 10 * int(SubSeq(ds, 1, Len(ds) - 1))
         + (CHOOSE d \in 0..9 : Digits[d + 1] = ds[Len(ds)])

\* The heading of a new scratchpad, and one numbered line of it.
Heading == <<"Previous action observations:", "\n">>
numbered(step, observation) == <<"\n">> \o IntStr(step) \o <<".", " ">> \o observation

\* edge.update_scratchpad on the scratchpad `old` (None, or the text of its
\* one message): the step number it takes and the text it returns, or the
\* AttributeError of `re.match(...).group()` on a last line without digits.
update_scratchpad(old, observation) ==
    IF old = None
    THEN [raised |-> FALSE, step |-> 1,
          txt |-> Heading \o numbered(1, observation)]
    ELSE LET m == match_digits(after_last_newline(old[1])) IN
         IF m = None
         THEN [raised |-> TRUE, step |-> 0, txt |-> old[1]]
         ELSE [raised |-> FALSE, step |-> int(m[1]) + 1,
               txt |-> old[1] \o numbered(int(m[1]) + 1, observation)]

\* What the tools of the model observe: a plain text, the empty text, one
\* that begins with a digit, one with a line break, and one whose second
\* line begins with a digit.
Observations ==
    {<<"o">>, <<>>, <<"7", " ", "o">>, <<"a", "\n", "b">>, <<"a", "\n", "7", "b">>}

\* Calls of update_scratchpad in one run of the graph.
MaxCalls == 3

\* A run of the graph starts without a scratchpad (routes.py:62), and every
\* tool node is followed by update_scratchpad (graph.py:27-44).
InitScratchpad ==
    /\ NoService
    /\ ret = [op |-> "start", k |-> 0, step |-> 0, scratchpad |-> None]

scratchpad_step(observation) ==
    /\ ret.op \in {"start", "update_scratchpad"}
    /\ ret.k < MaxCalls
    /\ LET out == update_scratchpad(ret.scratchpad, observation) IN
       ret' = IF out.raised
              THEN [op |-> "AttributeError", k |-> ret.k + 1, step |-> 0,
                    scratchpad |-> ret.scratchpad]
              ELSE [op |-> "update_scratchpad", k |-> ret.k + 1, step |-> out.step,
                    scratchpad |-> Some(out.txt)]
    /\ UNCHANGED <<now, browser, sessions, rec, page, closers, sweep, closeAll, loops, ended>>

NextScratchpad == \E observation \in Observations : scratchpad_step(observation)

SpecScratchpad == InitScratchpad /\ [][NextScratchpad]_vars

\* C18 (as stated).  From no history, whatever the observations are, with
\* line breaks or leading digits in them, no call of update_scratchpad
\* fails, and the k-th call numbers its line k.
C18_StepNumbers ==
    /\ ret.op # "AttributeError"
    /\ ret.op = "update_scratchpad" => ret.step = ret.k

\* An event of the decision stream without an actionable prediction: no
\* agent entry, or an agent entry whose prediction is missing or empty.
NoPrediction(e) ==
    \/ e.kind = "other"
    \/ e.kind = "agent" /\ ~HasAction(e)

\* C19 (as stated).  An event without an actionable prediction is skipped:
\* the step of process_query that pulls it leaves the six query fields of
\* the record as they were, and the task stays in flight.
C19_EventWithoutPredictionSkipped ==
    [][\A id \in DOMAIN rec :
          (ret'.op = "loop" /\ ret'.id = id /\ NoPrediction(ret'.at[1].event)) =>
              /\ QueryFields(rec'[id]) = QueryFields(rec[id])
              /\ running(id)' = running(id)
              /\ ret'.val = "skip"]_vars

\* The last step of process_query pulled an agent event with the action a.
StepWithAction(a) ==
    /\ ret.op = "loop"
    /\ HasAction(ret.at[1].event)
    /\ ActionOf(ret.at[1].event) = a

\* C20.  A retry prediction does not end the query: unless the step bound
\* is passed at that step, process_query goes on to the next event, and the
\* record of a query none of whose runs has ended is still processing with
\* neither result nor error.  select_tool sends the action "retry" to the
\* agent node, "ANSWER", and no other action, to END, and any other action
\* to the node of its name.
C20_RetryGoesBackToAgent ==
    /\ (StepWithAction(retry) /\ ret.at[1].step_count <= ret.at[1].max_steps) =>
           /\ ret.val = "continue"
           /\ running(ret.id) >= 1
           /\ select_tool(retry) = <<"agent">>
           /\ ended[ret.id] = 0 =>
                  /\ rec[ret.id].status = "processing"
                  /\ rec[ret.id].result = None
                  /\ rec[ret.id].error = None
    /\ \A a \in ActionNames :
           StepWithAction(a) =>
               /\ select_tool(a) = END <=> a = ANSWER
               /\ a \notin {ANSWER, retry} => select_tool(a) = a

\* C20, its case: the first agent step of a query with max_steps = 1 was a
\* retry, and the query is still processing at step 1.
C20_Witness ==
    /\ StepWithAction(retry)
    /\ ret.at[1].max_steps = 1
    /\ ret.val = "continue"
    /\ rec[ret.id].status = "processing"
    /\ rec[ret.id].current_step = Some(1)
    /\ rec[ret.id].result = None
    /\ rec[ret.id].error = None

\* One session and its expiry: the clock, lookups whose two readings of
\* the clock may differ, closes, get-triggered cleanups and the sweep.
NextLookup ==
    \/ Tick
    \/ initialize
    \/ \E t \in Timeouts, o \in {"ok", "new_page", "goto"}, d \in Advances :
           Created = {} /\ create_session(t, o, d)
    \/ \E id \in Ids, d \in Advances : get_session_route(id, d)
    \/ \E id \in Ids : close_session_route(id)
    \/ \E c \in BagToSet(closers) : close_session_start(c)
    \/ \E c \in BagToSet(closers), raised \in BOOLEAN : close_session_resume(c, raised)
    \/ \E d \in [Ids -> Advances] : sweep_wake(d)
    \/ \E raised \in BOOLEAN : sweep_resume(raised)

SpecLookup == Init /\ [][NextLookup]_vars

\* C21.  close_all_sessions cancels the sweep only when every close_session
\* of its gather has ended; when it returns, a sweep task that was started
\* is cancelled; a cancelled sweep never scans or closes again; and a close
\* that raises inside an iteration of the sweep leaves the sweep running.
C21_SweepStoppedAfterCloses ==
    [][/\ (sweep'.pc = "cancelled" /\ sweep.pc # "cancelled") =>
              /\ ret'.op = "close_all"
              /\ closeAll.pc \in {"idle", "gather"}
              /\ NoCloseAllTask
              /\ closeAll.pc = "idle" => sessions = {}
       /\ (closeAll'.pc = "done" /\ closeAll.pc # "done") =>
              (sweep'.pc = "cancelled" \/ (sweep'.pc = "none" /\ ~browser))
       /\ sweep.pc = "cancelled" =>
              /\ sweep' = sweep
              /\ ret'.op # "sweep"
       /\ (ret'.op = "sweep" /\ ret'.val \in {"KeyError", "Exception"}) =>
              sweep'.pc \in {"sleep", "releasing"}]_vars

\* C21, its case: close_all_sessions has returned after a gather over two
\* sessions, one of them closed by a second closer as well, and the sweep
\* is cancelled.
C21_Witness ==
    /\ ret.op = "close_all"
    /\ ret.val = "returned"
    /\ closeAll.pc = "done"
    /\ closeAll.n = 2
    /\ sweep.pc = "cancelled"
    /\ \E id \in DOMAIN page : page[id] >= 2

\* C22 (as stated).  A run of process_query that ends leaves status
\* completed only if the event it ended on carried an answer action: a
\* decision stream that ends without an answer does not give completed.
C22_CompletedOnlyOnAnswer ==
    (/\ ret.op = "loop"
     /\ ret.val \notin {"skip", "continue"}
     /\ rec[ret.id].status = "completed") =>
        /\ HasAction(ret.at[1].event)
        /\ is_answer(ActionOf(ret.at[1].event))

\* C23 (as stated).  No lookup and no submit succeeds on a session whose
\* page.close() has been called, the close being suspended in it or past
\* it.
C23_NoLookupOfReleased ==
    (/\ ret.op \in {"get", "submit"}
     /\ ret.val \in {"ok", "processing"}) =>
        page[ret.id] = 0

\* The sweep begins the close of a session in this step: it calls
\* page.close() for the next id of its list.
SweepBeginsClose ==
    /\ sweep'.pc = "releasing"
    /\ sweep.pc # "releasing" \/ sweep'.cur # sweep.cur \/ sweep'.rest # sweep.rest

\* C24.  With a clock that does not go back, a record that is expired stays
\* expired with its last_accessed as it is, whatever step is taken; a
\* lookup of it is refused as expired; and a record the sweep closes is in
\* the registry and expired when its page.close() is called and when it is
\* deleted, also when it was collected before an earlier close suspended.
C24_ExpiryPermanentSweepPrecise ==
    [][/\ \A id \in DOMAIN rec :
              now - rec[id].last_accessed > rec[id].timeout_minutes =>
                  /\ now' - rec'[id].last_accessed > rec'[id].timeout_minutes
                  /\ rec'[id].last_accessed = rec[id].last_accessed
                  /\ (ret'.op = "get" /\ ret'.id = id /\ id \in sessions) =>
                         ret'.val = "expired"
       /\ SweepBeginsClose =>
              /\ sweep'.cur \in sessions'
              /\ now' - rec'[sweep'.cur].last_accessed > rec'[sweep'.cur].timeout_minutes
       /\ (ret'.op = "sweep" /\ ret'.val = "True") =>
              /\ ret'.id \in sessions
              /\ now' - rec'[ret'.id].last_accessed > rec'[ret'.id].timeout_minutes]_vars

\* C24, its case: the sweep collected two expired sessions in one scan, has
\* closed and deleted the first, and has called page.close() of the second
\* after that suspension.
C24_Witness ==
    /\ ret.op = "sweep"
    /\ ret.val = "True"
    /\ ret.id = 1
    /\ sweep.pc = "releasing"
    /\ sweep.cur = 2
    /\ 2 \in sessions
    /\ is_expired(rec[2], now)

====
